---- MODULE Spec2Model ----
(***************************************************************************)
(* The launcher store (src/src/services/store.ts) and the services it      *)
(* calls, as a state machine.                                              *)
(*                                                                         *)
(* The store is a zustand store: every set(...) is one synchronous write.  *)
(* Every action is an async function: it runs on the single JavaScript     *)
(* thread until its next await, is suspended while the awaited service     *)
(* call is outstanding, and is resumed when that call resolves or rejects. *)
(* `cur` is the activation that holds the thread (between two awaits),     *)
(* `pending` the bag of activations suspended at an await.  One step of    *)
(* the model is one set(...) or one service call of the running            *)
(* activation, or the resumption of a suspended one with the outcome of    *)
(* the service call it awaited.                                            *)
(***************************************************************************)
EXTENDS Bags, FiniteSets, Integers, Sequences, TLC

VARIABLES
    isAuthenticated,    \* store.ts:9
    user,               \* store.ts:10  (the AuthResponse, named by its username)
    token,              \* store.ts:11
    gameVersion,        \* store.ts:14  (the GameVersion, named by its version)
    installedVersion,   \* store.ts:15
    launcherStatus,     \* store.ts:16
    downloadProgress,   \* store.ts:17  (<<>> is null, <<p>> the record p)
    errorMessage,       \* store.ts:18
    settings,           \* store.ts:21
    cur,                \* the activation running on the JavaScript thread
    pending,            \* bag of activations suspended at an await
    localStorageToken,  \* localStorage item 'token', which the services read
    stoppedWith         \* installedVersion when the process last stopped

session == <<isAuthenticated, user, token>>
game    == <<gameVersion, installedVersion, downloadProgress>>
store   == <<isAuthenticated, user, token, gameVersion, installedVersion,
             launcherStatus, downloadProgress, errorMessage, settings>>
vars    == <<isAuthenticated, user, token, gameVersion, installedVersion,
             launcherStatus, downloadProgress, errorMessage, settings,
             cur, pending, localStorageToken, stoppedWith>>

\* what outlives the launcher process
outside == <<localStorageToken, stoppedWith>>

----------------------------------------------------------------------------
(* Bounds *)

\* at most this many actions are in progress at once
MaxInFlight == 2

----------------------------------------------------------------------------
(* Values *)

Null == "null"

\* enum LauncherStatus
IDLE             == "idle"
CHECKING_VERSION == "checking_version"
DOWNLOADING      == "downloading"
INSTALLING       == "installing"
READY            == "ready"
UPDATING         == "updating"
PLAYING          == "playing"
ERROR            == "error"

LauncherStatus ==
    {IDLE, CHECKING_VERSION, DOWNLOADING, INSTALLING, READY, UPDATING, PLAYING, ERROR}

\* accounts the backend knows, and the token field of the AuthResponse of each
Users == {"admin"}

TokenOf(u) == "token_" \o u

\* the accounts of the session specification
Accounts == {"admin", "guest"}

\* versions the backend may advertise, with the other fields of GameVersion
Versions == {"1.2.3", "1.2.4"}

FileSize(v) ==
    IF v = "1.2.3" THEN 1000 ELSE 2000

ChecksumOf(v) ==
    IF v = "1.2.3" THEN "sha_123" ELSE "sha_124"

\* digests the payload delivered by a download may have
Digests == {ChecksumOf(v) : v \in Versions} \cup {"sha_corrupt"}

\* LauncherSettings objects
SettingsValues == {"settings"}

\* the messages the store writes to errorMessage
ErrLogin       == "Error: Login failed"
ErrCheck       == "Failed to check game version"
ErrUnavailable == "Version or settings not available"
ErrDownload    == "Download failed: Error: Failed to download game"
ErrNoAuth      == "Not authenticated or settings missing"
ErrLaunch      == "Failed to launch game: Error: Failed to launch game"

\* a service call that rejected
Rejected == "rejected"

\* an activation of an action: the action, the await or statement it is at,
\* the value it captured when it was invoked, the value its last service call
\* returned
Task(act, pc, arg, res) ==
    [act |-> act, pc |-> pc, arg |-> arg, res |-> res]

NoTask == Task("none", "none", Null, Null)

InFlight ==
    BagCardinality(pending) + (IF cur = NoTask THEN 0 ELSE 1)

\* a new action is invoked only when the thread is free
CanInvoke == cur = NoTask

CanStart == CanInvoke /\ InFlight < MaxInFlight

Suspended(t) == BagIn(t, pending)

Remove(t) == pending (-) SetToBag({t})

Add(t) == pending (+) SetToBag({t})

----------------------------------------------------------------------------
(* Initial state *)

Init ==
    /\ isAuthenticated = FALSE
    /\ user = Null
    /\ token = Null
    /\ gameVersion = Null
    /\ installedVersion = Null
    /\ launcherStatus = IDLE
    /\ downloadProgress = <<>>
    /\ errorMessage = Null
    /\ settings = Null
    /\ cur = NoTask
    /\ pending = EmptyBag
    /\ localStorageToken = Null
    /\ stoppedWith = Null

----------------------------------------------------------------------------
(* The services: what an awaited call can settle with *)

Outcomes(t) ==
    CASE t.pc = "await_getSettings"    -> SettingsValues
      [] t.pc = "await_saveSettings"   -> {"ok", Rejected}
      [] t.pc = "await_login"          -> {t.arg, Rejected}
      [] t.pc = "await_logout"         -> {"ok", Rejected}
      [] t.pc = "await_checkVersion"   -> Versions \cup {Rejected}
      [] t.pc = "await_getInstallPath" -> {t.res}
      [] t.pc = "await_downloadGame"   -> Digests \cup {Rejected}
      [] t.pc = "await_launchGame"     -> {"ok", Rejected}

\* the awaited call of t settles with r and t gets the thread
Resume(t, r) ==
    /\ Suspended(t)
    /\ cur = NoTask
    /\ r \in Outcomes(t)
    /\ cur' = [t EXCEPT !.res = r]
    /\ pending' = Remove(t)
    /\ UNCHANGED store
    /\ UNCHANGED outside

\* the running activation calls a service and is suspended until it settles
Await(pc) ==
    /\ pending' = Add([cur EXCEPT !.pc = pc])
    /\ cur' = NoTask

\* the running activation returns
Return == cur' = NoTask /\ UNCHANGED pending

----------------------------------------------------------------------------
(* initialize *)

initialize ==
    /\ CanStart
    /\ pending' = Add(Task("initialize", "await_getSettings", Null, Null))
    /\ UNCHANGED <<store, cur>>
    /\ UNCHANGED outside

\* SettingsService.getSettings never rejects: it returns the defaults instead
initialize_Resolved ==
    /\ cur.pc = "await_getSettings"
    /\ settings' = cur.res
    /\ Return
    /\ UNCHANGED <<session, game, launcherStatus, errorMessage>>
    /\ UNCHANGED outside

----------------------------------------------------------------------------
(* updateSettings *)

updateSettings(s) ==
    /\ CanStart
    /\ pending' = Add(Task("updateSettings", "await_saveSettings", s, Null))
    /\ UNCHANGED <<store, cur>>
    /\ UNCHANGED outside

updateSettings_Resolved ==
    /\ cur.pc = "await_saveSettings"
    /\ cur.res # Rejected
    /\ settings' = cur.arg
    /\ Return
    /\ UNCHANGED <<session, game, launcherStatus, errorMessage>>
    /\ UNCHANGED outside

updateSettings_Rejected ==
    /\ cur.pc = "await_saveSettings"
    /\ cur.res = Rejected
    /\ Return
    /\ UNCHANGED store
    /\ UNCHANGED outside

----------------------------------------------------------------------------
(* checkGameVersion *)

\* checkGameVersion_Begin that does not announce the check
checkGameVersion_Begin_NoStatus(t) ==
    /\ cur' = [t EXCEPT !.pc = "call_checkVersion"]
    /\ UNCHANGED <<store, pending>>
    /\ UNCHANGED outside

\* store.ts:100
checkGameVersion_Begin(t) ==
    /\ launcherStatus' = CHECKING_VERSION
    /\ cur' = [t EXCEPT !.pc = "call_checkVersion"]
    /\ UNCHANGED <<session, game, errorMessage, settings, pending>>
    /\ UNCHANGED outside

checkGameVersion ==
    /\ CanStart
    /\ checkGameVersion_Begin(Task("checkGameVersion", "checkGameVersion", Null, Null))

\* store.ts:102
checkGameVersion_Call ==
    /\ cur.pc = "call_checkVersion"
    /\ Await("await_checkVersion")
    /\ UNCHANGED store
    /\ UNCHANGED outside

\* store.ts:103; cur.res is the version GameService.checkVersion returned
checkGameVersion_GetInstallPath ==
    /\ cur.pc = "await_checkVersion"
    /\ cur.res # Rejected
    /\ Await("await_getInstallPath")
    /\ UNCHANGED store
    /\ UNCHANGED outside

\* checkGameVersion_Resolved that leaves the launcher idle
checkGameVersion_Resolved_Idle ==
    /\ cur.pc = "await_getInstallPath"
    /\ gameVersion' = cur.res
    /\ launcherStatus' = IDLE
    /\ Return
    /\ UNCHANGED <<session, installedVersion, downloadProgress, errorMessage, settings>>
    /\ UNCHANGED outside

\* store.ts:105-108; the result of getInstallPath is not used
checkGameVersion_Resolved ==
    /\ cur.pc = "await_getInstallPath"
    /\ gameVersion' = cur.res
    /\ launcherStatus' = READY
    /\ Return
    /\ UNCHANGED <<session, installedVersion, downloadProgress, errorMessage, settings>>
    /\ UNCHANGED outside

\* checkGameVersion_Rejected without the message
checkGameVersion_Rejected_NoMessage ==
    /\ cur.pc = "await_checkVersion"
    /\ cur.res = Rejected
    /\ launcherStatus' = ERROR
    /\ Return
    /\ UNCHANGED <<session, game, errorMessage, settings>>
    /\ UNCHANGED outside

\* checkGameVersion_Rejected that also drops the session
checkGameVersion_Rejected_ClearsSession ==
    /\ cur.pc = "await_checkVersion"
    /\ cur.res = Rejected
    /\ errorMessage' = ErrCheck
    /\ launcherStatus' = ERROR
    /\ isAuthenticated' = FALSE
    /\ user' = Null
    /\ token' = Null
    /\ Return
    /\ UNCHANGED <<game, settings>>
    /\ UNCHANGED outside

\* store.ts:109-114; the error is swallowed, so the caller (login too) goes on
checkGameVersion_Rejected ==
    /\ cur.pc = "await_checkVersion"
    /\ cur.res = Rejected
    /\ errorMessage' = ErrCheck
    /\ launcherStatus' = ERROR
    /\ Return
    /\ UNCHANGED <<session, game, settings>>
    /\ UNCHANGED outside

----------------------------------------------------------------------------
(* login *)

\* login that clears the status instead of setting IDLE
login_NoStatus(username) ==
    /\ CanStart
    /\ launcherStatus' = Null
    /\ errorMessage' = Null
    /\ cur' = Task("login", "call_login", username, Null)
    /\ UNCHANGED <<session, game, settings, pending>>
    /\ UNCHANGED outside

\* store.ts:61
login(username) ==
    /\ CanStart
    /\ launcherStatus' = IDLE
    /\ errorMessage' = Null
    /\ cur' = Task("login", "call_login", username, Null)
    /\ UNCHANGED <<session, game, settings, pending>>
    /\ UNCHANGED outside

\* store.ts:63
login_Call ==
    /\ cur.pc = "call_login"
    /\ Await("await_login")
    /\ UNCHANGED store
    /\ UNCHANGED outside

\* login_Resolved that keeps the token of the session before
login_Resolved_KeepsToken ==
    /\ cur.pc = "await_login"
    /\ cur.res # Rejected
    /\ isAuthenticated' = TRUE
    /\ user' = cur.res
    /\ cur' = [cur EXCEPT !.pc = "checkGameVersion"]
    /\ UNCHANGED <<token, game, launcherStatus, errorMessage, settings, pending>>
    /\ UNCHANGED outside

\* login_Resolved with the version check begun before the session is set
login_Resolved_CheckFirst ==
    /\ cur.pc = "await_login"
    /\ cur.res # Rejected
    /\ launcherStatus' = CHECKING_VERSION
    /\ cur' = [cur EXCEPT !.pc = "call_checkVersion"]
    /\ UNCHANGED <<session, game, errorMessage, settings, pending>>
    /\ UNCHANGED outside

\* store.ts:65-69; cur.res is the AuthResponse
login_Resolved ==
    /\ cur.pc = "await_login"
    /\ cur.res # Rejected
    /\ isAuthenticated' = TRUE
    /\ user' = cur.res
    /\ token' = TokenOf(cur.res)
    /\ cur' = [cur EXCEPT !.pc = "checkGameVersion"]
    /\ UNCHANGED <<game, launcherStatus, errorMessage, settings, pending>>
    /\ UNCHANGED outside

\* store.ts:72: await get().checkGameVersion()
login_CheckGameVersion ==
    /\ cur.act = "login"
    /\ cur.pc = "checkGameVersion"
    /\ checkGameVersion_Begin(cur)

\* login_Rejected with the error swallowed, as checkGameVersion does
login_Rejected_Swallowed ==
    /\ cur.pc = "await_login"
    /\ cur.res = Rejected
    /\ errorMessage' = ErrLogin
    /\ launcherStatus' = ERROR
    /\ Return
    /\ UNCHANGED <<session, game, settings>>
    /\ UNCHANGED outside

\* store.ts:73-77
login_Rejected ==
    /\ cur.pc = "await_login"
    /\ cur.res = Rejected
    /\ errorMessage' = ErrLogin
    /\ launcherStatus' = ERROR
    /\ cur' = [cur EXCEPT !.pc = "throw"]
    /\ UNCHANGED <<session, game, settings, pending>>
    /\ UNCHANGED outside

\* store.ts:78: the promise of login rejects
login_Throw ==
    /\ cur.pc = "throw"
    /\ Return
    /\ UNCHANGED store
    /\ UNCHANGED outside

----------------------------------------------------------------------------
(* logout *)

\* store.ts:85
logout ==
    /\ CanStart
    /\ pending' = Add(Task("logout", "await_logout", Null, Null))
    /\ UNCHANGED <<store, cur>>
    /\ UNCHANGED outside

\* logout_Resolved that also forgets what is installed
logout_Resolved_ResetsInstalled ==
    /\ cur.pc = "await_logout"
    /\ cur.res # Rejected
    /\ isAuthenticated' = FALSE
    /\ user' = Null
    /\ token' = Null
    /\ launcherStatus' = IDLE
    /\ installedVersion' = Null
    /\ Return
    /\ UNCHANGED <<gameVersion, downloadProgress, errorMessage, settings>>
    /\ UNCHANGED outside

\* logout_Resolved that also clears the error message
logout_Resolved_ClearsError ==
    /\ cur.pc = "await_logout"
    /\ cur.res # Rejected
    /\ isAuthenticated' = FALSE
    /\ user' = Null
    /\ token' = Null
    /\ launcherStatus' = IDLE
    /\ errorMessage' = Null
    /\ Return
    /\ UNCHANGED <<game, settings>>
    /\ UNCHANGED outside

\* store.ts:86-91
logout_Resolved ==
    /\ cur.pc = "await_logout"
    /\ cur.res # Rejected
    /\ isAuthenticated' = FALSE
    /\ user' = Null
    /\ token' = Null
    /\ launcherStatus' = IDLE
    /\ Return
    /\ UNCHANGED <<game, errorMessage, settings>>
    /\ UNCHANGED outside

\* store.ts:92-94: AuthService.logout rejected; the error is logged
logout_Rejected ==
    /\ cur.pc = "await_logout"
    /\ cur.res = Rejected
    /\ Return
    /\ UNCHANGED store
    /\ UNCHANGED outside

----------------------------------------------------------------------------
(* downloadGame *)

InitialProgress(v) ==
    [downloadedBytes |-> 0, totalBytes |-> FileSize(v),
     progressPercent |-> 0, speedMbps |-> 0]

\* downloadGame_Invoke without the guard of store.ts:121-124
downloadGame_Invoke_Unguarded ==
    /\ launcherStatus' = DOWNLOADING
    /\ downloadProgress' = <<InitialProgress(gameVersion)>>
    /\ cur' = Task("downloadGame", "call_downloadGame", gameVersion, Null)
    /\ UNCHANGED <<session, gameVersion, installedVersion, errorMessage,
                   settings, pending>>

\* store.ts:119-135, run by whoever holds the thread
downloadGame_Invoke ==
    IF gameVersion = Null \/ settings = Null
    THEN /\ errorMessage' = ErrUnavailable
         /\ cur' = NoTask
         /\ UNCHANGED <<session, game, launcherStatus, settings, pending>>
    ELSE /\ launcherStatus' = DOWNLOADING
         /\ downloadProgress' = <<InitialProgress(gameVersion)>>
         /\ cur' = Task("downloadGame", "call_downloadGame", gameVersion, Null)
         /\ UNCHANGED <<session, gameVersion, installedVersion, errorMessage,
                        settings, pending>>

downloadGame ==
    /\ CanInvoke
    /\ gameVersion = Null \/ settings = Null \/ InFlight < MaxInFlight
    /\ downloadGame_Invoke
    /\ UNCHANGED outside

\* store.ts:137-143.  GameService.downloadGame never calls onProgress
\* (part_002:45-47), so the callback of store.ts:140-142 does not run.
downloadGame_Call ==
    /\ cur.pc = "call_downloadGame"
    /\ Await("await_downloadGame")
    /\ UNCHANGED store
    /\ UNCHANGED outside

\* downloadGame_Resolved that does not record what it installed
downloadGame_Resolved_Unrecorded ==
    /\ cur.pc = "await_downloadGame"
    /\ cur.res # Rejected
    /\ launcherStatus' = READY
    /\ Return
    /\ UNCHANGED <<session, game, errorMessage, settings>>
    /\ UNCHANGED outside

\* downloadGame_Resolved that installs the version advertised by now
downloadGame_Resolved_InstallsCurrent ==
    /\ cur.pc = "await_downloadGame"
    /\ cur.res # Rejected
    /\ launcherStatus' = READY
    /\ installedVersion' = gameVersion
    /\ Return
    /\ UNCHANGED <<session, gameVersion, downloadProgress, errorMessage, settings>>
    /\ UNCHANGED outside

\* store.ts:145-148: the backend answered 2xx; cur.res is the digest of the
\* payload it delivered, cur.arg the version captured at store.ts:119
downloadGame_Resolved ==
    /\ cur.pc = "await_downloadGame"
    /\ cur.res # Rejected
    /\ launcherStatus' = READY
    /\ installedVersion' = cur.arg
    /\ Return
    /\ UNCHANGED <<session, gameVersion, downloadProgress, errorMessage, settings>>
    /\ UNCHANGED outside

\* downloadGame_Rejected with the version recorded as installed all the same
downloadGame_Rejected_Installs ==
    /\ cur.pc = "await_downloadGame"
    /\ cur.res = Rejected
    /\ errorMessage' = ErrDownload
    /\ launcherStatus' = ERROR
    /\ installedVersion' = cur.arg
    /\ Return
    /\ UNCHANGED <<session, gameVersion, downloadProgress, settings>>
    /\ UNCHANGED outside

\* downloadGame_Rejected that leaves the status as it is
downloadGame_Rejected_KeepsStatus ==
    /\ cur.pc = "await_downloadGame"
    /\ cur.res = Rejected
    /\ errorMessage' = ErrDownload
    /\ Return
    /\ UNCHANGED <<session, game, launcherStatus, settings>>
    /\ UNCHANGED outside

\* store.ts:149-154
downloadGame_Rejected ==
    /\ cur.pc = "await_downloadGame"
    /\ cur.res = Rejected
    /\ errorMessage' = ErrDownload
    /\ launcherStatus' = ERROR
    /\ Return
    /\ UNCHANGED <<session, game, settings>>
    /\ UNCHANGED outside

----------------------------------------------------------------------------
(* launchGame *)

\* launchGame_Invoke without the guard of store.ts:161-164
launchGame_Invoke_Unguarded ==
    /\ launcherStatus' = PLAYING
    /\ cur' = Task("launchGame", "call_launchGame", token, Null)
    /\ UNCHANGED <<session, game, errorMessage, settings, pending>>

\* store.ts:159-167, run by whoever holds the thread
launchGame_Invoke ==
    IF token = Null \/ settings = Null
    THEN /\ errorMessage' = ErrNoAuth
         /\ cur' = NoTask
         /\ UNCHANGED <<session, game, launcherStatus, settings, pending>>
    ELSE /\ launcherStatus' = PLAYING
         /\ cur' = Task("launchGame", "call_launchGame", token, Null)
         /\ UNCHANGED <<session, game, errorMessage, settings, pending>>

launchGame ==
    /\ CanInvoke
    /\ token = Null \/ settings = Null \/ InFlight < MaxInFlight
    /\ launchGame_Invoke
    /\ UNCHANGED outside

\* store.ts:169
launchGame_Call ==
    /\ cur.pc = "call_launchGame"
    /\ Await("await_launchGame")
    /\ UNCHANGED store
    /\ UNCHANGED outside

\* launchGame_Resolved that leaves the launcher in PLAYING
launchGame_Resolved_StaysPlaying ==
    /\ cur.pc = "await_launchGame"
    /\ cur.res # Rejected
    /\ Return
    /\ UNCHANGED store
    /\ UNCHANGED outside

\* store.ts:172
launchGame_Resolved ==
    /\ cur.pc = "await_launchGame"
    /\ cur.res # Rejected
    /\ launcherStatus' = READY
    /\ Return
    /\ UNCHANGED <<session, game, errorMessage, settings>>
    /\ UNCHANGED outside

\* launchGame_Rejected with the error only logged, as updateSettings does
launchGame_Rejected_LogOnly ==
    /\ cur.pc = "await_launchGame"
    /\ cur.res = Rejected
    /\ Return
    /\ UNCHANGED store
    /\ UNCHANGED outside

\* store.ts:173-178
launchGame_Rejected ==
    /\ cur.pc = "await_launchGame"
    /\ cur.res = Rejected
    /\ errorMessage' = ErrLaunch
    /\ launcherStatus' = ERROR
    /\ Return
    /\ UNCHANGED <<session, game, settings>>
    /\ UNCHANGED outside

----------------------------------------------------------------------------
(* LauncherScreen *)

\* App.tsx:15-19: the launcher screen is shown to an authenticated user
LauncherScreenShown == isAuthenticated

\* part_001:19: the condition of the effect of the launcher screen
useEffect_Condition ==
    gameVersion = Null /\ launcherStatus = IDLE

\* part_001:18-22: the launcher screen is rendered when the thread is free,
\* and its effect starts a version check
LauncherScreen_useEffect ==
    /\ CanStart
    /\ LauncherScreenShown
    /\ useEffect_Condition
    /\ checkGameVersion_Begin(Task("checkGameVersion", "checkGameVersion", Null, Null))

\* part_001:70-74
isButtonDisabled ==
    launcherStatus \in {DOWNLOADING, INSTALLING, CHECKING_VERSION, PLAYING}

\* the user clicks the play button (part_001:178-180)
handlePlayClick ==
    /\ CanStart
    /\ LauncherScreenShown
    /\ ~isButtonDisabled
    /\ cur' = Task("handlePlayClick", "handlePlayClick", Null, Null)
    /\ UNCHANGED <<store, pending>>
    /\ UNCHANGED outside

\* handlePlayClick_Dispatch that downloads in every status but READY
handlePlayClick_Dispatch_ElseDownload ==
    /\ cur.pc = "handlePlayClick"
    /\ IF launcherStatus = READY
       THEN launchGame_Invoke
       ELSE downloadGame_Invoke
    /\ UNCHANGED outside

\* part_001:24-30
handlePlayClick_Dispatch ==
    /\ cur.pc = "handlePlayClick"
    /\ IF launcherStatus = READY
       THEN launchGame_Invoke
       ELSE IF launcherStatus = IDLE
            THEN downloadGame_Invoke
            ELSE Return /\ UNCHANGED store
    /\ UNCHANGED outside

----------------------------------------------------------------------------
(* The services' credential and the launcher process *)

\* the bearer credential of the download, logout and settings requests
\* (part_002:31-35, authService.ts:28-32, settingsService.ts:8-12)
BearerToken == localStorageToken

\* the launcher is closed and started again: the store is created anew
\* (store.ts:35-43), the outstanding calls are gone, localStorage is kept
Restart ==
    /\ cur = NoTask
    /\ stoppedWith' = installedVersion
    /\ isAuthenticated' = FALSE
    /\ user' = Null
    /\ token' = Null
    /\ gameVersion' = Null
    /\ installedVersion' = Null
    /\ launcherStatus' = IDLE
    /\ downloadProgress' = <<>>
    /\ errorMessage' = Null
    /\ settings' = Null
    /\ pending' = EmptyBag
    /\ UNCHANGED <<cur, localStorageToken>>

----------------------------------------------------------------------------
(* Specification *)

Next ==
    \/ initialize
    \/ initialize_Resolved
    \/ \E s \in SettingsValues : updateSettings(s)
    \/ updateSettings_Resolved
    \/ updateSettings_Rejected
    \/ \E u \in Users : login(u)
    \/ login_Call
    \/ login_Resolved
    \/ login_CheckGameVersion
    \/ login_Rejected
    \/ login_Throw
    \/ logout
    \/ logout_Resolved
    \/ logout_Rejected
    \/ checkGameVersion
    \/ checkGameVersion_Call
    \/ checkGameVersion_GetInstallPath
    \/ checkGameVersion_Resolved
    \/ checkGameVersion_Rejected
    \/ downloadGame
    \/ downloadGame_Call
    \/ downloadGame_Resolved
    \/ downloadGame_Rejected
    \/ launchGame
    \/ launchGame_Call
    \/ launchGame_Resolved
    \/ launchGame_Rejected
    \/ handlePlayClick
    \/ handlePlayClick_Dispatch
    \/ LauncherScreen_useEffect
    \/ \E t \in BagToSet(pending) : \E r \in Outcomes(t) : Resume(t, r)

Spec == Init /\ [][Next]_vars

NextRestart == Next \/ Restart

\* the launcher with restarts of its process
SpecRestart == Init /\ [][NextRestart]_vars

\* login and logout alone, with two accounts; no other action writes a
\* session field
NextSession ==
    \/ \E u \in Accounts : login(u)
    \/ login_Call
    \/ login_Resolved
    \/ login_CheckGameVersion
    \/ login_Rejected
    \/ login_Throw
    \/ logout
    \/ logout_Resolved
    \/ logout_Rejected
    \/ checkGameVersion_Call
    \/ checkGameVersion_GetInstallPath
    \/ checkGameVersion_Resolved
    \/ checkGameVersion_Rejected
    \/ \E t \in BagToSet(pending) : \E r \in Outcomes(t) : Resume(t, r)

SpecSession == Init /\ [][NextSession]_vars

TypeOK ==
    /\ isAuthenticated \in BOOLEAN
    /\ user \in Accounts \cup {Null}
    /\ token \in {TokenOf(u) : u \in Accounts} \cup {Null}
    /\ gameVersion \in Versions \cup {Null}
    /\ installedVersion \in Versions \cup {Null}
    /\ launcherStatus \in LauncherStatus
    /\ downloadProgress \in {<<>>} \cup {<<InitialProgress(v)>> : v \in Versions}
    /\ errorMessage \in {Null, ErrLogin, ErrCheck, ErrUnavailable, ErrDownload, ErrNoAuth, ErrLaunch}
    /\ settings \in SettingsValues \cup {Null}
    /\ InFlight <= MaxInFlight
    /\ localStorageToken \in {TokenOf(u) : u \in Users} \cup {Null}
    /\ stoppedWith \in Versions \cup {Null}

----------------------------------------------------------------------------
(* Properties *)

\* the activation that holds the thread is at pc of action act
Running(act, pc) == cur.act = act /\ cur.pc = pc

\* t has written the store and will write it again when its service settles
MidAction(t) ==
    t.pc \in {"await_login", "await_checkVersion", "await_getInstallPath",
              "await_downloadGame", "await_launchGame"}

\* C1: a downloadGame invoked while launcherStatus is DOWNLOADING is
\* rejected: no activation of downloadGame starts on its way to
\* GameService.downloadGame, and launcherStatus and downloadProgress keep
\* their values.
C1_SecondDownloadRejected ==
    [][launcherStatus = DOWNLOADING /\ cur = NoTask
        => /\ ~Running("downloadGame", "call_downloadGame")'
           /\ (launcherStatus' = DOWNLOADING => downloadProgress' = downloadProgress)]_vars

\* C2: a launchGame invoked while launcherStatus is DOWNLOADING is a no-op:
\* PLAYING is not entered and no activation starts on its way to
\* GameService.launchGame.
C2_LaunchIgnoredWhileDownloading ==
    [][launcherStatus = DOWNLOADING /\ cur = NoTask
        => /\ launcherStatus' # PLAYING
           /\ ~Running("launchGame", "call_launchGame")']_vars

\* C3: whenever launcherStatus is READY, installedVersion is non-null and
\* equals the advertised version gameVersion.
C3_ReadyOnlyWhenVersionsMatch ==
    launcherStatus = READY => installedVersion # Null /\ installedVersion = gameVersion

\* C4: when checkGameVersion resolves with a version that is not the
\* installed one (or nothing is installed), launcherStatus becomes IDLE.
C4_UpdateAvailableAfterCheck ==
    [][(cur.pc = "await_getInstallPath"
           /\ (installedVersion = Null \/ installedVersion # cur.res))
        => launcherStatus' = IDLE]_vars

\* C5: when logout completes, whether AuthService.logout resolved or
\* rejected, the session is cleared and launcherStatus is IDLE.
C5_LogoutAlwaysClears ==
    [][cur.act = "logout" /\ cur' = NoTask
        => /\ isAuthenticated' = FALSE
           /\ user' = Null
           /\ token' = Null
           /\ launcherStatus' = IDLE]_vars

\* C6: a download whose payload digest differs from the advertised checksum
\* of its version ends in ERROR and leaves installedVersion unchanged.
C6_NoInstallWithoutIntegrity ==
    [][cur.pc = "await_downloadGame" /\ cur.res # ChecksumOf(cur.arg)
        => /\ installedVersion' = installedVersion
           /\ launcherStatus' = ERROR]_vars

\* C7: when AuthService.login rejects, login sets launcherStatus to ERROR
\* with a non-null errorMessage, leaves the session as it is, calls no
\* service (no version check) and then throws, changing nothing else.
C7_LoginFailureShortCircuits ==
    [][/\ cur.pc = "await_login" /\ cur.res = Rejected
          => /\ launcherStatus' = ERROR
             /\ errorMessage' # Null
             /\ UNCHANGED <<session, pending>>
             /\ Running("login", "throw")'
       /\ cur.pc = "throw"
          => /\ cur' = NoTask
             /\ UNCHANGED <<store, pending>>]_vars

\* a login has failed and is about to throw
C7_Witness ==
    /\ Running("login", "throw")
    /\ launcherStatus = ERROR
    /\ errorMessage = ErrLogin

\* C8: when AuthService.login resolves, login first sets the session from
\* the response with launcherStatus untouched, then sets CHECKING_VERSION,
\* then calls GameService.checkVersion; the session of the response is set
\* all the while.
C8_LoginComposesVersionCheck ==
    [][/\ cur.pc = "await_login" /\ cur.res # Rejected
          => /\ isAuthenticated' = TRUE
             /\ user' = cur.res
             /\ token' = TokenOf(cur.res)
             /\ launcherStatus' = launcherStatus
             /\ Running("login", "checkGameVersion")'
             /\ pending' = pending
       /\ Running("login", "checkGameVersion")
          => /\ isAuthenticated /\ user = cur.arg /\ token = TokenOf(cur.arg)
             /\ launcherStatus' = CHECKING_VERSION
             /\ Running("login", "call_checkVersion")'
             /\ UNCHANGED <<session, pending>>
       /\ Running("login", "call_checkVersion")
          => /\ isAuthenticated /\ user = cur.arg /\ token = TokenOf(cur.arg)
             /\ launcherStatus = CHECKING_VERSION
             /\ pending' = Add([cur EXCEPT !.pc = "await_checkVersion"])]_vars

\* login is about to call GameService.checkVersion
C8_Witness ==
    /\ Running("login", "call_checkVersion")
    /\ launcherStatus = CHECKING_VERSION
    /\ isAuthenticated

\* C9: while an action is suspended between two of its writes, no step
\* changes the store.
C9_ActionsSerialized ==
    [][\A t \in BagToSet(pending) :
          MidAction(t) /\ CopiesIn(t, pending') >= CopiesIn(t, pending)
            => store' = store]_vars

\* C10: every change of launcherStatus is a transition of the lifecycle
\* table, a logout going to IDLE, or a failed login going to ERROR.
C10_OnlyListedTransitions ==
    [][launcherStatus' # launcherStatus
        => \/ <<launcherStatus, launcherStatus'>> \in
                 {<<IDLE, CHECKING_VERSION>>,
                  <<CHECKING_VERSION, IDLE>>, <<CHECKING_VERSION, READY>>,
                  <<CHECKING_VERSION, ERROR>>,
                  <<IDLE, DOWNLOADING>>,
                  <<DOWNLOADING, INSTALLING>>, <<DOWNLOADING, ERROR>>,
                  <<DOWNLOADING, IDLE>>,
                  <<INSTALLING, READY>>,
                  <<READY, PLAYING>>,
                  <<PLAYING, READY>>,
                  <<ERROR, IDLE>>}
           \/ cur.act = "logout" /\ launcherStatus' = IDLE
           \/ cur.act = "login" /\ cur.res = Rejected /\ launcherStatus' = ERROR]_vars

\* C11: whenever launcherStatus is ERROR, errorMessage is non-null.
C11_FailedCarriesError ==
    launcherStatus = ERROR => errorMessage # Null

\* a version check has failed
C11_Witness ==
    /\ launcherStatus = ERROR
    /\ errorMessage = ErrCheck
    /\ cur = NoTask

\* C12: once launcherStatus is ERROR, no activation that resumes or goes on
\* running moves it out of ERROR; only the invocation of an action does (or
\* a logout completing).  An activation that writes a status other than
\* ERROR when it resumes wrote one when it was invoked, so it was in flight
\* when ERROR was entered.
C12_NoAutomaticExitFromFailed ==
    [][launcherStatus = ERROR /\ cur # NoTask /\ cur.act # "logout"
        => launcherStatus' = ERROR]_vars

C14_RetryFromFailed ==
    [][cur.pc = "handlePlayClick" /\ launcherStatus = ERROR
        => launcherStatus' = IDLE]_vars

\* C15: a download in flight can be cancelled: whenever a transfer is
\* outstanding and the thread is free, a step is possible that drops the
\* transfer, sets launcherStatus to IDLE and leaves installedVersion alone.
C15_DownloadCancellable ==
    (cur = NoTask /\ \E t \in BagToSet(pending) : t.pc = "await_downloadGame")
        => ENABLED (/\ Next
                    /\ \E t \in BagToSet(pending) :
                          /\ t.pc = "await_downloadGame"
                          /\ pending' = Remove(t)
                    /\ launcherStatus' = IDLE
                    /\ installedVersion' = installedVersion)

\* C16: when GameService.downloadGame resolves, launcherStatus becomes
\* INSTALLING (and READY only afterwards).
C16_DownloadPassesThroughInstalling ==
    [][cur.pc = "await_downloadGame" /\ cur.res # Rejected
        => launcherStatus' = INSTALLING]_vars

\* C17: when GameService.downloadGame rejects, downloadGame sets
\* launcherStatus to ERROR and errorMessage to 'Download failed: ' followed
\* by the error, and leaves installedVersion and gameVersion unchanged.
C17_DownloadFailureInstallsNothing ==
    [][cur.pc = "await_downloadGame" /\ cur.res = Rejected
        => /\ launcherStatus' = ERROR
           /\ errorMessage' = "Download failed: " \o "Error: Failed to download game"
           /\ UNCHANGED <<installedVersion, gameVersion>>]_vars

\* a download has failed with nothing installed
C17_Witness ==
    /\ launcherStatus = ERROR
    /\ errorMessage = ErrDownload
    /\ installedVersion = Null
    /\ gameVersion # Null
    /\ cur = NoTask

\* C18: the only step that changes installedVersion is the continuation of
\* downloadGame after GameService.downloadGame resolved, which sets it to
\* the version the download was started with.
C18_InstalledChangesOnlyOnDownloadSuccess ==
    [][installedVersion' # installedVersion
        => /\ cur.act = "downloadGame"
           /\ cur.pc = "await_downloadGame"
           /\ cur.res # Rejected
           /\ installedVersion' = cur.arg]_vars

\* a download has succeeded
C18_Witness ==
    /\ installedVersion # Null
    /\ launcherStatus = READY
    /\ cur = NoTask

\* C19: when initialize completes after a restart that stopped the
\* launcher with a version installed, installedVersion is a version again
\* (it is not left reset to null).
C19_InstalledSurvivesRestart ==
    [][cur.pc = "await_getSettings" /\ stoppedWith # Null
        => installedVersion' # Null]_vars

\* C20: whenever no activation is running, the token the services send is
\* the token of the store's session: the session token after a login, null
\* after a logout.
C20_TokenPersistedForRequests ==
    cur = NoTask => BearerToken = token

\* the step is the invocation of an action, from the event loop or from the
\* click handler
Invoking == cur = NoTask \/ cur.pc = "handlePlayClick"

\* C21: while no session exists (token null, isAuthenticated false) no
\* downloadGame starts a transfer: launcherStatus does not become
\* DOWNLOADING and no activation sets out to call GameService.downloadGame.
C21_DownloadRequiresSession ==
    [][token = Null /\ ~isAuthenticated /\ Invoking
        => /\ ~Running("downloadGame", "call_downloadGame")'
           /\ (launcherStatus' = DOWNLOADING => launcherStatus = DOWNLOADING)]_vars

\* C22: downloadProgress is non-null only while launcherStatus is
\* DOWNLOADING.
C22_ProgressOnlyWhileDownloading ==
    downloadProgress # <<>> => launcherStatus = DOWNLOADING

\* C23: downloadedBytes is 0 when a download starts, never exceeds
\* totalBytes, does not decrease from one update to the next, and equals the
\* file size of the version when GameService.downloadGame resolves.
C23_ProgressMonotonicAndComplete ==
    [][/\ (Invoking /\ Running("downloadGame", "call_downloadGame")')
          => downloadProgress'[1].downloadedBytes = 0
       /\ downloadProgress' # <<>>
          => downloadProgress'[1].downloadedBytes <= downloadProgress'[1].totalBytes
       /\ (downloadProgress # <<>> /\ downloadProgress' # <<>> /\ ~Invoking)
          => downloadProgress'[1].downloadedBytes >= downloadProgress[1].downloadedBytes
       /\ (cur.pc = "await_downloadGame" /\ cur.res # Rejected)
          => /\ downloadProgress' # <<>>
             /\ downloadProgress'[1].downloadedBytes = FileSize(cur.arg)]_vars

\* C24: the version check of a login that resolves sets gameVersion to the
\* version returned and launcherStatus to READY, leaving installedVersion
\* alone; a downloadGame invoked with a version and settings captures that
\* version and sets DOWNLOADING; when its transfer resolves launcherStatus
\* is READY and installedVersion is the version it captured.
C24_EndToEndInstall ==
    [][/\ (cur.act = "login" /\ cur.pc = "await_getInstallPath")
          => /\ gameVersion' = cur.res
             /\ launcherStatus' = READY
             /\ installedVersion' = installedVersion
             /\ cur' = NoTask
       /\ (cur = NoTask /\ gameVersion # Null /\ settings # Null
              /\ Running("downloadGame", "call_downloadGame")')
          => /\ cur'.arg = gameVersion
             /\ launcherStatus' = DOWNLOADING
       /\ (cur.pc = "await_downloadGame" /\ cur.res # Rejected)
          => /\ launcherStatus' = READY
             /\ installedVersion' = cur.arg]_vars

\* logged in, with settings, the advertised version installed, nothing in
\* flight
C24_Witness ==
    /\ isAuthenticated
    /\ settings # Null
    /\ gameVersion # Null
    /\ installedVersion = gameVersion
    /\ launcherStatus = READY
    /\ cur = NoTask
    /\ pending = EmptyBag

\* C25: a click in READY with a session and settings sets PLAYING and
\* captures the token of the session; the launch is dispatched in PLAYING
\* with that token; when the dispatch resolves launcherStatus is READY, when
\* it rejects launcherStatus is ERROR and errorMessage is 'Failed to launch
\* game: ' followed by the error.
C25_LaunchLifecycle ==
    [][/\ (cur.pc = "handlePlayClick" /\ launcherStatus = READY
              /\ token # Null /\ settings # Null)
          => /\ launcherStatus' = PLAYING
             /\ Running("launchGame", "call_launchGame")'
             /\ cur'.arg = token
             /\ pending' = pending
       /\ Running("launchGame", "call_launchGame")
          => /\ launcherStatus = PLAYING
             /\ cur.arg = token
             /\ pending' = Add([cur EXCEPT !.pc = "await_launchGame"])
             /\ store' = store
       /\ (cur.pc = "await_launchGame" /\ cur.res # Rejected)
          => launcherStatus' = READY
       /\ (cur.pc = "await_launchGame" /\ cur.res = Rejected)
          => /\ launcherStatus' = ERROR
             /\ errorMessage' = "Failed to launch game: " \o "Error: Failed to launch game"]_vars

\* a launch has been dispatched and has resolved
C25_Witness ==
    /\ Running("launchGame", "await_launchGame")
    /\ cur.res = "ok"
    /\ cur.arg = token
    /\ launcherStatus = PLAYING

\* C26: a logout that completes while no session exists leaves every store
\* field as it was.
C26_LogoutWithoutSessionIsNoOp ==
    [][(cur.act = "logout" /\ ~isAuthenticated /\ user = Null /\ token = Null)
        => store' = store]_vars

\* C27: a version check whose fetched version is the installed one writes
\* nothing between CHECKING_VERSION and READY, sets READY, leaves
\* installedVersion and downloadProgress alone and starts no other action.
C27_VersionMatchGoesToReady ==
    [][/\ (cur.pc = "await_checkVersion" /\ cur.res = installedVersion)
          => /\ store' = store
             /\ pending' = Add([cur EXCEPT !.pc = "await_getInstallPath"])
       /\ (cur.pc = "await_getInstallPath" /\ cur.res = installedVersion)
          => /\ launcherStatus' = READY
             /\ UNCHANGED <<installedVersion, downloadProgress, pending>>
             /\ cur' = NoTask]_vars

\* a check has fetched the installed version and is about to finish
C27_Witness ==
    /\ cur.pc = "await_getInstallPath"
    /\ cur.res = installedVersion
    /\ launcherStatus = CHECKING_VERSION

\* C28: launcherStatus is always one of the eight LauncherStatus values.
C28_StateExclusivity ==
    /\ launcherStatus \in LauncherStatus
    /\ Cardinality(LauncherStatus) = 8

\* two actions are suspended at once
C28_Witness ==
    /\ BagCardinality(pending) >= 2
    /\ \E t \in BagToSet(pending) : t.pc = "await_downloadGame"
    /\ \E t \in BagToSet(pending) : t.pc = "await_checkVersion"

\* C29: isAuthenticated is true exactly when user is non-null, and token is
\* the token of user when user is non-null and null otherwise.
C29_SessionConsistent ==
    /\ isAuthenticated <=> user # Null
    /\ token = IF user # Null THEN TokenOf(user) ELSE Null

\* the second of two logins in flight at once has replaced the session of
\* the first
C29_Witness ==
    /\ user = "guest"
    /\ \E t \in BagToSet(pending) :
          t.act = "login" /\ t.arg = "admin" /\ t.pc = "await_checkVersion"
    /\ \E t \in BagToSet(pending) :
          t.act = "login" /\ t.arg = "guest" /\ t.pc = "await_checkVersion"

\* t is a login at its version check
LoginChecking(t) ==
    /\ t.act = "login"
    /\ t.pc \in {"await_checkVersion", "await_getInstallPath"}

\* C30: while the one login in flight is at the version check it has
\* requested, and when a failed check has left the status ERROR, the effect
\* of the launcher screen does not start a check.
C30_MountEffectStartsNoSecondCheck ==
    /\ (/\ cur = NoTask
        /\ \E t \in BagToSet(pending) : LoginChecking(t)
        /\ \A t \in BagToSet(pending) : t.act = "login" => CopiesIn(t, pending) = 1 /\ LoginChecking(t)
        /\ Cardinality({t \in BagToSet(pending) : t.act = "login"}) = 1)
       => ~(LauncherScreenShown /\ useEffect_Condition)
    /\ launcherStatus = ERROR => ~useEffect_Condition

\* the launcher screen is shown while the login that showed it is at its
\* version check
C30_Witness ==
    /\ cur = NoTask
    /\ LauncherScreenShown
    /\ gameVersion = Null
    /\ launcherStatus = CHECKING_VERSION
    /\ \E t \in BagToSet(pending) : LoginChecking(t)
    /\ Cardinality({t \in BagToSet(pending) : t.act = "login"}) = 1

\* C31: when the transfer of a downloadGame resolves, launcherStatus is
\* READY and installedVersion is the version captured when downloadGame was
\* invoked, also when gameVersion has been replaced since; gameVersion
\* itself is left alone.
C31_DownloadInstallsCapturedVersion ==
    [][/\ (Invoking /\ Running("downloadGame", "call_downloadGame")')
          => cur'.arg = gameVersion
       /\ (cur.pc = "await_downloadGame" /\ cur.res # Rejected)
          => /\ launcherStatus' = READY
             /\ installedVersion' = cur.arg
             /\ gameVersion' = gameVersion
             /\ (gameVersion # cur.arg => installedVersion' # gameVersion')]_vars

\* a transfer has resolved after a version check replaced gameVersion
C31_Witness ==
    /\ cur.pc = "await_downloadGame"
    /\ cur.res # Rejected
    /\ gameVersion # Null
    /\ gameVersion # cur.arg

\* the number of statements and awaits an activation at pc has before it at
\* most
StepsLeft(pc) ==
    CASE pc = "call_login"           -> 6
      [] pc = "await_login"          -> 5
      [] pc = "checkGameVersion"     -> 4
      [] pc = "handlePlayClick"      -> 4
      [] pc = "call_checkVersion"    -> 3
      [] pc = "await_checkVersion"   -> 2
      [] pc = "call_downloadGame"    -> 2
      [] pc = "call_launchGame"      -> 2
      [] pc = "none"                 -> 0
      [] OTHER                       -> 1

\* C32: when no action is in flight launcherStatus is IDLE, READY or ERROR;
\* and every action completes once its service calls settle: a running
\* activation always has a next step, a suspended one can be resumed with
\* whatever its call settles with, and every step of an activation leaves
\* it returned or with fewer statements before it.
C32_QuiescentStatusStable ==
    /\ [](InFlight = 0 => launcherStatus \in {IDLE, READY, ERROR})
    /\ [](cur # NoTask => ENABLED Next)
    /\ [](cur = NoTask =>
            \A t \in BagToSet(pending) : \A r \in Outcomes(t) : ENABLED Resume(t, r))
    /\ [][cur # NoTask
            => \/ cur' = NoTask /\ pending' = pending
               \/ /\ cur' = NoTask
                  /\ \E t \in BagToSet(pending') :
                        /\ pending' = Add(t)
                        /\ StepsLeft(t.pc) < StepsLeft(cur.pc)
               \/ /\ cur' # NoTask
                  /\ pending' = pending
                  /\ StepsLeft(cur'.pc) < StepsLeft(cur.pc)]_vars

\* a login and a download have completed and nothing is in flight
C32_Witness ==
    /\ InFlight = 0
    /\ isAuthenticated
    /\ installedVersion # Null
    /\ launcherStatus \in {READY, ERROR}

\* C33: when the version check of a login rejects, login returns without
\* throwing, the session and gameVersion are left as they are, and
\* launcherStatus is ERROR with errorMessage 'Failed to check game version'.
C33_CheckFailureKeepsLogin ==
    [][(cur.act = "login" /\ cur.pc = "await_checkVersion" /\ cur.res = Rejected)
        => /\ launcherStatus' = ERROR
           /\ errorMessage' = "Failed to check game version"
           /\ UNCHANGED <<session, gameVersion, pending>>
           /\ cur' = NoTask]_vars

\* logged in, with the version check failed and nothing in flight
C33_Witness ==
    /\ isAuthenticated
    /\ token # Null
    /\ launcherStatus = ERROR
    /\ errorMessage = ErrCheck
    /\ gameVersion = Null
    /\ InFlight = 0

\* C34: whenever launcherStatus is PLAYING token is non-null; a click in
\* READY with token or settings null only sets errorMessage to 'Not
\* authenticated or settings missing' and returns, and no launch sets out
\* to call GameService.launchGame without a token and settings.
C34_PlayingImpliesToken ==
    /\ [](launcherStatus = PLAYING => token # Null)
    /\ [][/\ (cur.pc = "handlePlayClick" /\ launcherStatus = READY
                 /\ (token = Null \/ settings = Null))
             => /\ errorMessage' = "Not authenticated or settings missing"
                /\ UNCHANGED <<session, game, launcherStatus, settings, pending>>
                /\ cur' = NoTask
          /\ (Invoking /\ Running("launchGame", "call_launchGame")')
             => token # Null /\ settings # Null]_vars

\* a launch was refused
C34_Witness ==
    /\ errorMessage = ErrNoAuth
    /\ launcherStatus # PLAYING
    /\ cur = NoTask

\* C35: whenever launcherStatus is DOWNLOADING gameVersion and settings are
\* non-null; a click in IDLE with gameVersion or settings null only sets
\* errorMessage to 'Version or settings not available' and returns, and no
\* download sets out to call GameService.downloadGame without a version
\* and settings.
C35_DownloadPrecondition ==
    /\ [](launcherStatus = DOWNLOADING => gameVersion # Null /\ settings # Null)
    /\ [][/\ (cur.pc = "handlePlayClick" /\ launcherStatus = IDLE
                 /\ (gameVersion = Null \/ settings = Null))
             => /\ errorMessage' = "Version or settings not available"
                /\ UNCHANGED <<session, game, launcherStatus, settings, pending>>
                /\ cur' = NoTask
          /\ (Invoking /\ Running("downloadGame", "call_downloadGame")')
             => gameVersion # Null /\ settings # Null]_vars

\* a download was refused
C35_Witness ==
    /\ errorMessage = ErrUnavailable
    /\ launcherStatus # DOWNLOADING
    /\ cur = NoTask

\* C36: when AuthService.logout resolves, logout clears the session, sets
\* IDLE and leaves gameVersion, installedVersion, downloadProgress,
\* errorMessage and settings alone; when it rejects, logout leaves the
\* whole store alone.
C36_LogoutFrame ==
    [][/\ (cur.pc = "await_logout" /\ cur.res # Rejected)
          => /\ isAuthenticated' = FALSE /\ user' = Null /\ token' = Null
             /\ launcherStatus' = IDLE
             /\ UNCHANGED <<gameVersion, installedVersion, downloadProgress,
                            errorMessage, settings>>
       /\ (cur.pc = "await_logout" /\ cur.res = Rejected)
          => store' = store]_vars

\* a logout of a session has resolved, with an error message on display
C36_Witness ==
    /\ cur.pc = "await_logout"
    /\ cur.res # Rejected
    /\ isAuthenticated
    /\ errorMessage # Null
    /\ gameVersion # Null

\* C37: the click handler starts a launch only in READY and a download only
\* in IDLE, and in every other status returns without a write: through the
\* button no launch is requested in DOWNLOADING, CHECKING_VERSION, PLAYING
\* or ERROR and no download while launcherStatus is DOWNLOADING.
C37_PlayButtonDispatchesByStatus ==
    [][cur.pc = "handlePlayClick"
        => /\ cur'.act = "launchGame" => launcherStatus = READY
           /\ cur'.act = "downloadGame" => launcherStatus = IDLE
           /\ launcherStatus \notin {READY, IDLE}
                 => cur' = NoTask /\ UNCHANGED <<store, pending>>]_vars

\* the button is clicked while it reads RETRY
C37_Witness ==
    /\ cur.pc = "handlePlayClick"
    /\ launcherStatus = ERROR

====
